---- MODULE Spec2Model ----
(***************************************************************************)
(* Model of the intent-routing orchestrator of llm-agent-orchestrator     *)
(* (src/main.py, src/tools.py).  One request is followed from its arrival *)
(* at POST /orchestrate to the value handed back to the web framework.    *)
(* The handler blocks on at most two calls to the model provider; the     *)
(* model is cut at those suspension points:                               *)
(*   Receive        orchestrate(): strip, fast-path test, calculator or   *)
(*                  the routing POST of orchestrate_agent                 *)
(*   RouteReply     the routing POST returns or raises; parsing, tool     *)
(*                  dispatch, the fallback POST, the except clauses       *)
(*   FallbackReply  the fallback POST returns or raises                   *)
(* Strings are sequences of tokens (characters for queries and            *)
(* expressions, words for messages), so an f-string is a concatenation    *)
(* and "contains" is membership.                                          *)
(***************************************************************************)
EXTENDS Integers, Sequences, FiniteSets, TLC

(* ------------------------------ bounds --------------------------------- *)
MaxQueryLen == 3     \* characters in a raw query
MaxHistory  == 1     \* turns in the caller's history
MaxMsgLen   == 3     \* tokens in a provider error message
MaxWhole    == 1     \* whole seconds in a wait hint
MaxTenths   == 1     \* tenths of a second in a wait hint
MaxArgs     == 1     \* keyword arguments in a model choice
MaxExprLen  == 1     \* characters in a model-supplied expression

(* --------------------------- strings, values --------------------------- *)
SeqsUpTo(S, n) == UNION {[1..k -> S] : k \in 0..n}

Contains(s, t) == \E i \in 1..Len(s) : s[i] = t

\* A Python value as far as the orchestrator looks at it: its type and,
\* for a str, its text.
Str(t)    == [type |-> "str", text |-> t]
NoneValue == [type |-> "NoneType", text |-> <<>>]
ListValue == [type |-> "list", text |-> <<>>]

\* f"{v}" of a value
Format(v) == IF v.type = "str" THEN v.text
             ELSE IF v.type = "NoneType" THEN <<"None">> ELSE <<"[]">>

(* ------------------------- the query alphabet -------------------------- *)
Digits     == {"1"}
Whitespace == {" "}
Operators  == {"+"}            \* stands for + - * /
Brackets   == {"(", ")"}
Dot        == {"."}
Letters    == {"a"}            \* any character outside the class
MathChars  == Digits \cup Whitespace \cup Operators \cup Brackets \cup Dot
Chars      == MathChars \cup Letters

RECURSIVE LStrip(_)
LStrip(s) == IF s = <<>> THEN s
             ELSE IF Head(s) \in Whitespace THEN LStrip(Tail(s)) ELSE s

RECURSIVE RStrip(_)
RStrip(s) == IF s = <<>> THEN s
             ELSE IF s[Len(s)] \in Whitespace
                  THEN RStrip(SubSeq(s, 1, Len(s) - 1)) ELSE s

\* str.strip()
strip(s) == RStrip(LStrip(s))

\* variant: the pattern with * in place of +
MathPatternMatches_star(s) == \A i \in 1..Len(s) : s[i] \in MathChars

\* re.fullmatch / re.match of ^[\d\s\+\-\*/\(\)\.]+$ : one or more
\* characters, all of the class.
MathPatternMatches(s) == Len(s) >= 1 /\ \A i \in 1..Len(s) : s[i] \in MathChars

\* variant: a classifier that also asks for a digit
is_purely_math_query_digit(q) ==
    MathPatternMatches(strip(q)) /\ \E i \in 1..Len(q) : q[i] \in Digits

\* main.py 76-78
is_purely_math_query(q) == MathPatternMatches(strip(q))

(* ------------------------------ calculator ----------------------------- *)
\* A Python expression needs an atom.  Over the class the atoms are a
\* number (a digit), the empty tuple "()" and the Ellipsis "...".
CanFormAtom(s) ==
    \/ \E i \in 1..Len(s) : s[i] \in Digits
    \/ \E i \in 1..Len(s), j \in 1..Len(s) :
           /\ i < j /\ s[i] = "(" /\ s[j] = ")"
           /\ \A k \in (i+1)..(j-1) : s[k] \in Whitespace
    \/ \E i \in 1..(Len(s) - 2) : \A k \in i..(i+2) : s[k] \in Dot

\* eval(expression): without an atom it raises SyntaxError; with one it
\* returns a value or raises (SyntaxError, ZeroDivisionError, TypeError).
EvalOutcomes(s) == IF CanFormAtom(s) THEN {"value", "raise"} ELSE {"raise"}

CalcFailed  == <<"Calculation failed. Check the math expression.">>
CalcInvalid == <<"Invalid math expression. Only numbers and basic operators are allowed.">>

\* str(eval(expression)): the printed value, never empty
StrOfValue(s) == <<"value of ">> \o s

calculator(expression, ev) ==
    IF expression.type # "str" THEN Str(CalcFailed)      \* re.match raises
    ELSE IF MathPatternMatches(expression.text)
         THEN IF ev = "value" THEN Str(StrOfValue(expression.text))
              ELSE Str(CalcFailed)
         ELSE Str(CalcInvalid)

(* ------------------------- capability registry ------------------------- *)
ToolOrder == <<"get_news", "get_weather", "get_stock_price",
               "get_wikipedia_summary", "calculator">>

ToolKeys == {ToolOrder[i] : i \in 1..Len(ToolOrder)}

\* AVAILABLE_TOOLS: capability name -> the one parameter of its function
AVAILABLE_TOOLS ==
    [n \in ToolKeys |->
        CASE n = "get_news"              -> "topic"
          [] n = "get_weather"           -> "city"
          [] n = "get_stock_price"       -> "ticker_symbol"
          [] n = "get_wikipedia_summary" -> "search_term"
          [] n = "calculator"            -> "expression"]

ArgNames == {AVAILABLE_TOOLS[n] : n \in ToolKeys}

\* The data-fetching functions of tools.py catch every exception and
\* return a display string.
ToolOutput(n) == Str(<<"output of ", n>>)

\* The TypeError of  function(**arguments)  at the call, <<>> when the
\* arguments bind.
BindingError(n, arguments) ==
    LET p    == AVAILABLE_TOOLS[n]
        keys == arguments.keys
        bad  == {i \in 1..Len(keys) : keys[i] # p}
    IN  IF arguments.type # "dict"
        THEN <<"tools.", n, "() argument after ** must be a mapping, not ",
               arguments.type>>
        ELSE IF bad # {}
        THEN <<n, "() got an unexpected keyword argument '",
               keys[CHOOSE i \in bad : \A j \in bad : i <= j], "'">>
        ELSE IF ~ Contains(keys, p)
        THEN <<n, "() missing 1 required positional argument: '", p, "'">>
        ELSE <<>>

(* ------------------------- what a request returns ---------------------- *)
Pending == [kind |-> "pending", query |-> <<>>, result |-> NoneValue, exc |-> ""]

\* return {"query": query, "result": result}
Returned(q, r) == [kind |-> "returned", query |-> q, result |-> r, exc |-> ""]

\* the function ends without a return statement: the caller gets None
ReturnedNone == [kind |-> "returned_none", query |-> <<>>, result |-> NoneValue, exc |-> ""]

\* an exception leaves orchestrate_agent
Raised(e) == [kind |-> "raised", query |-> <<>>, result |-> NoneValue, exc |-> e]

UnexpectedPrefix == "An unexpected error occurred in the agent logic: "

\* variant: the message without {e}
UnexpectedError_no_description(q, description) ==
    Returned(q, Str(<<UnexpectedPrefix>>))

\* except Exception as e  (main.py 147-149)
UnexpectedError(q, description) ==
    Returned(q, Str(<<UnexpectedPrefix>> \o description))

UnknownTool(q, tool_name) ==
    Returned(q, Str(<<"Error: The LLM chose a tool ('">> \o Format(tool_name)
                    \o <<"') that does not exist.">>))

(* ------------------------- provider error bodies ----------------------- *)
TryAgainIn == "Please try again in "

Text(t)      == [kind |-> "text", text |-> t, whole |-> 0, tenths |-> 0]
Number(w, f) == [kind |-> "number", text |-> "", whole |-> w, tenths |-> f]

MsgTokens == {Text(TryAgainIn), Text("s"), Text("Rate limit reached. ")}
             \cup {Number(w, f) : w \in 0..MaxWhole, f \in 0..MaxTenths}

AbsentValue == [type |-> "absent", text |-> <<>>]

\* the "message" member of the error object: missing, a string, or null
MessageValues == {AbsentValue, NoneValue}
                 \cup {Str(m) : m \in SeqsUpTo(MsgTokens, MaxMsgLen)}

RateLimitCode == Str(<<"rate_limit_exceeded">>)
CodeValues    == {NoneValue, RateLimitCode, Str(<<"invalid_api_key">>)}

Body(shape, code, message) == [shape |-> shape, code |-> code, message |-> message]

\* a few messages, for the runs that vary the request rather than the error
SampleMessages ==
    {AbsentValue, NoneValue,
     Str(<<Text("Rate limit reached. ")>>),
     Str(<<Text(TryAgainIn), Number(MaxWhole, MaxTenths), Text("s")>>)}

\* the bodies of a 4xx/5xx reply; the message is read only under the
\* rate-limit code
ErrorBodies(Messages) ==
    {Body(s, NoneValue, AbsentValue) :
        s \in {"not_json", "json_not_object", "no_error_key", "error_not_object"}}
    \cup {Body("error_object", c, AbsentValue) : c \in CodeValues}
    \cup {Body("error_object", RateLimitCode, m) : m \in Messages}

Statuses == {401, 429, 500}

\* re.search(r"Please try again in (\d+\.?\d*)s", message): the positions
\* where the phrase, a number and an "s" follow each other
HintPositions(m) ==
    {i \in 1..(Len(m) - 2) :
        /\ m[i] = Text(TryAgainIn)
        /\ m[i+1].kind = "number"
        /\ m[i+2] = Text("s")}

\* variant: int() in place of math.ceil()
CeilSeconds_floor(n) == n.whole

\* math.ceil(float(match.group(1)))
CeilSeconds(n) == n.whole + (IF n.tenths > 0 THEN 1 ELSE 0)

FriendlyWait(wait_time) ==
    <<"It looks like I'm a bit popular right now! Please wait about ",
      ToString(wait_time), " seconds and try again.">>

HighTraffic == <<"I'm experiencing high traffic right now. Please try again in a moment.">>

ApiError(status) == <<"An API error occurred (Status Code: ", ToString(status), ").">>

\* except requests.exceptions.HTTPError as e  (main.py 126-145)
HandleHTTPError(q, status, body) ==
    IF body.shape = "not_json"
    THEN Returned(q, Str(ApiError(status)))              \* json.JSONDecodeError
    ELSE IF body.shape \in {"json_not_object", "error_not_object"}
    THEN Returned(q, Str(ApiError(status)))              \* AttributeError
    ELSE LET error_code == IF body.shape = "no_error_key" THEN NoneValue
                           ELSE body.code
             message    == IF body.message.type = "absent" THEN Str(<<>>)
                           ELSE body.message
         IN  IF error_code = RateLimitCode
             THEN IF message.type # "str"
                  THEN Raised("TypeError")               \* re.search(pattern, None)
                  ELSE LET pos == HintPositions(message.text)
                       IN  IF pos # {}
                           THEN LET i == CHOOSE i \in pos : \A j \in pos : i <= j
                                IN  Returned(q, Str(FriendlyWait(
                                        CeilSeconds(message.text[i+1]))))
                           ELSE Returned(q, Str(HighTraffic))
             ELSE ReturnedNone                           \* no branch returns

(* ------------------------- provider replies ---------------------------- *)
\* the "arguments" member of a choice: a dict (its keys, in order, and the
\* value under "expression"), or not a dict.  Missing gives the default {}.
Arguments(type, keys, expression) ==
    [type |-> type, keys |-> keys, expression |-> expression]

KeySeqs == {k \in SeqsUpTo(ArgNames, MaxArgs) :
               \A i \in 1..Len(k), j \in 1..Len(k) : k[i] = k[j] => i = j}

ExpressionValues == {NoneValue} \cup {Str(e) : e \in SeqsUpTo(Chars, MaxExprLen)}

\* the value under "expression" is read only by calculator(expression=...)
ArgumentValues ==
    {Arguments("NoneType", <<>>, NoneValue)}
    \cup {Arguments("dict", k, NoneValue) : k \in KeySeqs \ {<<"expression">>}}
    \cup {Arguments("dict", <<"expression">>, e) : e \in ExpressionValues}

\* the "tool_name" member: a string, missing or null (None), or a list
ToolNameValues == {Str(<<n>>) : n \in ToolKeys \cup {"fallback", "get_time"}}
                  \cup {NoneValue, ListValue}

Reply(shape, tool_name, arguments, content) ==
    [shape |-> shape, tool_name |-> tool_name, arguments |-> arguments,
     content |-> content]

NoArguments == Arguments("dict", <<>>, NoneValue)

\* the shapes of a 2xx reply to the routing request: four that are not a
\* JSON object in choices[0].message.content, and a parsed choice
MalformedShapes == {"body_not_json", "no_choices", "content_null",
                    "content_not_json", "content_not_object"}

\* variant: content that is JSON but not an object read as an empty choice
ParseFails_lenient(shape) ==
    shape \in {"body_not_json", "no_choices", "content_null", "content_not_json"}

\* lines 97-101 raise: response.json(), the subscripts, json.loads, .get
ParseFails(shape) ==
    shape \in {"body_not_json", "no_choices", "content_null",
               "content_not_json", "content_not_object"}

MalformedDescription(shape) ==
    CASE shape = "body_not_json"      -> <<"Expecting value: line 1 column 1 (char 0)">>
      [] shape = "no_choices"         -> <<"'choices'">>
      [] shape = "content_null"       -> <<"the JSON object must be str, bytes or bytearray, not NoneType">>
      [] shape = "content_not_json"   -> <<"Expecting value: line 1 column 1 (char 0)">>
      [] shape = "content_not_object" -> <<"'list' object has no attribute 'get'">>

\* the arguments are used only when the name is a registry key
RouteReplies ==
    {Reply(s, NoneValue, NoArguments, NoneValue) : s \in MalformedShapes}
    \cup {Reply("choice", Str(<<n>>), a, NoneValue) : n \in ToolKeys, a \in ArgumentValues}
    \cup {Reply("choice", t, a, NoneValue) :
             t \in ToolNameValues \ {Str(<<n>>) : n \in ToolKeys},
             a \in {NoArguments, Arguments("NoneType", <<>>, NoneValue)}}

\* the fallback call reads only choices[0].message.content
FallbackReplies ==
    {Reply(s, NoneValue, NoArguments, NoneValue) : s \in {"body_not_json", "no_choices"}}
    \cup {Reply("content", NoneValue, NoArguments, c) :
             c \in {Str(<<"reply text">>), Str(<<>>), NoneValue}}

Outcome(kind, status, body, reply) ==
    [kind |-> kind, status |-> status, body |-> body, reply |-> reply]

NoBody  == Body("none", NoneValue, AbsentValue)
NoReply == Reply("none", NoneValue, NoArguments, NoneValue)

\* what requests.post + raise_for_status can do
Outcomes(Replies, Messages) ==
    {Outcome("network_failure", 0, NoBody, NoReply)}
    \cup {Outcome("http_error", st, b, NoReply) :
             st \in Statuses, b \in ErrorBodies(Messages)}
    \cup {Outcome("ok", 200, NoBody, r) : r \in Replies}

NetworkFailure == <<"HTTPSConnectionPool(host='api.groq.com', port=443): Max retries exceeded">>

(* ------------------------------ requests ------------------------------- *)
Turn(role, content) == [role |-> role, content |-> content]

HistoryTurns == {Turn("assistant", <<"a">>)}

\* main.py 86-94
RoutingRequest(q, h) ==
    [messages |-> <<Turn("system", <<"SYSTEM_PROMPT">> \o ToolOrder)>> \o h
                  \o <<Turn("user", q)>>,
     response_format |-> "json_object"]

\* main.py 111-117
FallbackRequest(q, h) ==
    [messages |-> <<Turn("system", <<"You are a helpful and conversational assistant.">>)>>
                  \o h \o <<Turn("user", q)>>,
     response_format |-> "none"]

Invocation(n, keys, raised) == [name |-> n, keys |-> keys, raised |-> raised]

(* ------------------------------- state --------------------------------- *)
VARIABLES
    pc,        \* "idle", "routing", "fallback", "done"
    query,     \* the stripped query of the request
    history,   \* the caller's history
    calls,     \* the requests posted to the model provider, in order
    invoked,   \* the capability functions called, in order
    choice,    \* tool_name of the parsed routing reply, NoChoice before
    replies,   \* how each posted request came back, in order
    failure,   \* the last HTTP error raised by raise_for_status
    ret        \* what the handler hands back

vars == <<pc, query, history, calls, invoked, choice, replies, failure, ret>>

NoChoice  == [type |-> "unset", text |-> <<>>]
NoFailure == [status |-> 0, body |-> NoBody]

Init ==
    /\ pc = "idle"
    /\ query = <<>>
    /\ history = <<>>
    /\ calls = <<>>
    /\ invoked = <<>>
    /\ choice = NoChoice
    /\ replies = <<>>
    /\ failure = NoFailure
    /\ ret = Pending

\* orchestrate(), main.py 152-163, up to the first suspension point
Receive(raw, h) ==
    /\ pc = "idle"
    /\ query' = strip(raw)
    /\ history' = h
    /\ IF is_purely_math_query(query')
       THEN /\ invoked' = <<Invocation("calculator", <<"expression">>, FALSE)>>
            /\ \E ev \in EvalOutcomes(query') :
                   ret' = Returned(query', calculator(Str(query'), ev))
            /\ calls' = calls
            /\ pc' = "done"
       ELSE /\ calls' = <<RoutingRequest(query', h)>>
            /\ pc' = "routing"
            /\ UNCHANGED <<invoked, ret>>
    /\ UNCHANGED <<choice, replies, failure>>

\* variant: else in place of elif tool_name == "fallback"
Branch_unknown_is_fallback(tool_name) ==
    IF tool_name.type = "list" THEN "unhashable"
    ELSE IF tool_name.type = "str" /\ tool_name.text[1] \in DOMAIN AVAILABLE_TOOLS
    THEN "capability"
    ELSE "fallback"

\* variant: a missing tool_name treated as 'fallback'
Branch_missing_is_fallback(tool_name) ==
    IF tool_name.type = "list" THEN "unhashable"
    ELSE IF tool_name.type = "str" /\ tool_name.text[1] \in DOMAIN AVAILABLE_TOOLS
    THEN "capability"
    ELSE IF tool_name = Str(<<"fallback">>) \/ tool_name = NoneValue THEN "fallback"
    ELSE "unknown"

\* the branch lines 105, 109 and 121 take for a parsed tool_name
Branch(tool_name) ==
    IF tool_name.type = "list" THEN "unhashable"     \* the "in" test raises
    ELSE IF tool_name.type = "str" /\ tool_name.text[1] \in DOMAIN AVAILABLE_TOOLS
    THEN "capability"
    ELSE IF tool_name = Str(<<"fallback">>) THEN "fallback"
    ELSE "unknown"

\* lines 105-122 of orchestrate_agent for a parsed choice
Dispatch(tool_name, arguments) ==
    IF Branch(tool_name) = "unhashable"
    THEN /\ ret' = UnexpectedError(query, <<"unhashable type: 'list'">>)
         /\ pc' = "done"
         /\ UNCHANGED <<calls, invoked>>
    ELSE IF Branch(tool_name) = "capability"
    THEN LET n   == tool_name.text[1]
             err == BindingError(n, arguments)
         IN  /\ invoked' = Append(invoked, Invocation(n, arguments.keys, err # <<>>))
             /\ IF err # <<>>
                THEN ret' = UnexpectedError(query, err)
                ELSE IF n = "calculator"
                THEN \E ev \in (IF arguments.expression.type = "str"
                                THEN EvalOutcomes(arguments.expression.text)
                                ELSE {"raise"}) :
                        ret' = Returned(query, calculator(arguments.expression, ev))
                ELSE ret' = Returned(query, ToolOutput(n))
             /\ pc' = "done"
             /\ calls' = calls
    ELSE IF Branch(tool_name) = "fallback"
    THEN /\ calls' = Append(calls, FallbackRequest(query, history))
         /\ pc' = "fallback"
         /\ UNCHANGED <<invoked, ret>>
    ELSE /\ ret' = UnknownTool(query, tool_name)
         /\ pc' = "done"
         /\ UNCHANGED <<calls, invoked>>

\* what the except clauses make of a failed POST (main.py 126-149)
Recover(o) ==
    IF o.kind = "http_error"
    THEN /\ failure' = [status |-> o.status, body |-> o.body]
         /\ ret' = HandleHTTPError(query, o.status, o.body)
    ELSE /\ failure' = failure
         /\ ret' = UnexpectedError(query, NetworkFailure)

\* the entry of replies for an outcome
Came(o) == [kind |-> o.kind, shape |-> o.reply.shape]

\* the routing POST comes back: main.py 96-149
RouteReply(o) ==
    /\ pc = "routing"
    /\ replies' = Append(replies, Came(o))
    /\ UNCHANGED <<query, history>>
    /\ IF o.kind # "ok"
       THEN /\ Recover(o)
            /\ pc' = "done"
            /\ UNCHANGED <<calls, invoked, choice>>
       ELSE IF ParseFails(o.reply.shape)
       THEN /\ ret' = UnexpectedError(query, MalformedDescription(o.reply.shape))
            /\ pc' = "done"
            /\ UNCHANGED <<calls, invoked, choice, failure>>
       ELSE /\ choice' = o.reply.tool_name
            /\ Dispatch(o.reply.tool_name, o.reply.arguments)
            /\ failure' = failure

\* the fallback POST comes back: main.py 118-119, 126-149
FallbackReply(o) ==
    /\ pc = "fallback"
    /\ pc' = "done"
    /\ replies' = Append(replies, Came(o))
    /\ UNCHANGED <<query, history, calls, invoked, choice>>
    /\ IF o.kind # "ok"
       THEN Recover(o)
       ELSE /\ failure' = failure
            /\ IF o.reply.shape = "content"
               THEN ret' = Returned(query, o.reply.content)
               ELSE ret' = UnexpectedError(query, MalformedDescription(o.reply.shape))

Queries   == SeqsUpTo(Chars, MaxQueryLen)
Histories == SeqsUpTo(HistoryTurns, MaxHistory)

RouteOutcomes    == Outcomes(RouteReplies, SampleMessages)
FallbackOutcomes == Outcomes(FallbackReplies, SampleMessages)

ReceiveStep ==
    /\ pc = "idle"
    /\ \E raw \in Queries, h \in Histories : Receive(raw, h)

RouteReplyStep ==
    /\ pc = "routing"
    /\ \E o \in RouteOutcomes : RouteReply(o)

FallbackReplyStep ==
    /\ pc = "fallback"
    /\ \E o \in FallbackOutcomes : FallbackReply(o)

Next == ReceiveStep \/ RouteReplyStep \/ FallbackReplyStep

\* every request, against a provider whose error messages are the samples
Spec == Init /\ [][Next]_vars

\* one request that is not arithmetic, against a provider that answers the
\* routing call with 'fallback' or an error, with every error message
ProbeQueries == {<<"a">>, <<"a", " ", "1">>}

ProbeReplies == {Reply("choice", Str(<<"fallback">>), NoArguments, NoneValue)}

RouteErrors    == Outcomes(ProbeReplies, MessageValues)
FallbackErrors == Outcomes(FallbackReplies, MessageValues)

ReceiveProbe ==
    /\ pc = "idle"
    /\ \E raw \in ProbeQueries, h \in Histories : Receive(raw, h)

RouteReplyError ==
    /\ pc = "routing"
    /\ \E o \in RouteErrors : RouteReply(o)

FallbackReplyError ==
    /\ pc = "fallback"
    /\ \E o \in FallbackErrors : FallbackReply(o)

NextErrors == ReceiveProbe \/ RouteReplyError \/ FallbackReplyError

SpecErrors == Init /\ [][NextErrors]_vars

(* ------------------------------ properties ----------------------------- *)
Done == pc = "done"

\* a non-empty display string
IsDisplayString(r) == r.type = "str" /\ r.text # <<>>

AllMathChars(q) == \A i \in 1..Len(q) : q[i] \in MathChars

OnlyOperators(q) == \A i \in 1..Len(q) : q[i] \in Operators

FastPathTaken ==
    /\ pc = "done"
    /\ calls = <<>>
    /\ invoked = <<Invocation("calculator", <<"expression">>, FALSE)>>

HttpFailed == Done /\ failure # NoFailure

RateLimited == /\ HttpFailed
               /\ failure.body.shape = "error_object"
               /\ failure.body.code = RateLimitCode

\* a number directly followed by a seconds unit, anywhere in the message
SecondsHints(m) == {i \in 1..(Len(m) - 1) : m[i].kind = "number" /\ m[i+1] = Text("s")}

RoundedUp(n) == IF n.tenths = 0 THEN n.whole ELSE n.whole + 1

IsFriendlyWait(r, n) ==
    /\ r.type = "str"
    /\ r.text = <<"It looks like I'm a bit popular right now! Please wait about ",
                  ToString(RoundedUp(n)), " seconds and try again.">>

\* C1: every request ends by returning {query, result} with a non-empty
\* display string as result; it never returns nothing and never raises.
C1_AlwaysResult ==
    Done => /\ ret.kind = "returned"
            /\ ret.query = query
            /\ IsDisplayString(ret.result)

\* C2 as stated: every query whose trimmed text has only characters of the
\* arithmetic class takes the fast path and no request is posted to the
\* model provider.
C2_Original ==
    (pc # "idle" /\ AllMathChars(query)) =>
        (is_purely_math_query(query) /\ FastPathTaken)

\* C2 amended: every query whose trimmed text is non-empty and has only
\* characters of the arithmetic class takes the fast path and no request is
\* posted to the model provider.
C2_NonEmptyFastPath ==
    (pc # "idle" /\ query # <<>> /\ AllMathChars(query)) =>
        (is_purely_math_query(query) /\ FastPathTaken)

C2_Witness ==
    /\ Done /\ query = <<"(", "1", ")">> /\ calls = <<>> /\ Len(invoked) = 1

\* C3 as stated: a rate-limit error whose message has a number followed by
\* a seconds unit gives the friendly message citing that number rounded up.
C3_Original ==
    (RateLimited /\ failure.body.message.type = "str") =>
        LET m == failure.body.message.text
        IN  \A i \in SecondsHints(m) :
                (\A j \in SecondsHints(m) : i <= j) =>
                    /\ ret.kind = "returned"
                    /\ IsFriendlyWait(ret.result, m[i])

\* C3 amended: a rate-limit error whose message has "Please try again in "
\* directly followed by a number and "s" gives the friendly message citing
\* the first such number rounded up to the next whole second.
C3_PhraseHintRoundedUp ==
    (RateLimited /\ failure.body.message.type = "str") =>
        LET m == failure.body.message.text
            P == {i \in SecondsHints(m) : i > 1 /\ m[i-1] = Text(TryAgainIn)}
        IN  \A i \in P :
                (\A j \in P : i <= j) =>
                    /\ ret.kind = "returned"
                    /\ ret.query = query
                    /\ IsFriendlyWait(ret.result, m[i])

C3_Witness ==
    /\ RateLimited
    /\ failure.body.message =
           Str(<<Text(TryAgainIn), Number(MaxWhole, MaxTenths), Text("s")>>)
    /\ ret.result.text[2] = ToString(MaxWhole + 1)

\* C4: every HTTP error that is not a recognized rate-limit error gives the
\* generic API-error message citing the status code.
C4_GenericApiError ==
    (HttpFailed /\ ~ RateLimited) =>
        /\ ret.kind = "returned"
        /\ ret.result = Str(<<"An API error occurred (Status Code: ",
                              ToString(failure.status), ").">>)

ProblemClasses == {"() got an unexpected keyword argument '",
                   "() missing 1 required positional argument: '",
                   "() argument after ** must be a mapping, not "}

\* C5: when calling a registered capability raises, the request still
\* returns {query, result} and result is a string that names the capability
\* and the class of the problem.
C5_CapabilityFailureReported ==
    \A i \in 1..Len(invoked) :
        invoked[i].raised =>
            /\ Done
            /\ ret.kind = "returned"
            /\ ret.query = query
            /\ IsDisplayString(ret.result)
            /\ Contains(ret.result.text, invoked[i].name)
            /\ \E c \in ProblemClasses : Contains(ret.result.text, c)

C5_Witness ==
    /\ Done
    /\ invoked = <<Invocation("get_weather", <<"topic">>, TRUE)>>
    /\ ret.kind = "returned"

NamesUnknownTool ==
    /\ choice.type \in {"str", "NoneType"}
    /\ choice # Str(<<"fallback">>)
    /\ ~ (choice.type = "str" /\ choice.text[1] \in ToolKeys)

\* C6: a parsed choice naming neither a registered capability nor
\* 'fallback' (a missing tool_name included) calls no capability, posts no
\* second request, and the result contains the chosen name.
C6_UnknownToolNotInvoked ==
    NamesUnknownTool =>
        /\ Done
        /\ invoked = <<>>
        /\ Len(calls) = 1
        /\ ret.kind = "returned"
        /\ IsDisplayString(ret.result)
        /\ Contains(ret.result.text,
                    IF choice.type = "str" THEN choice.text[1] ELSE "None")

C6_Witness ==
    /\ Done /\ choice = Str(<<"get_time">>) /\ Contains(ret.result.text, "get_time")

\* C7 as stated: the empty query and a query of operator characters only
\* both take the fast path and end with the calculation-failure string.
C7_Original ==
    (pc # "idle" /\ OnlyOperators(query)) =>
        /\ FastPathTaken
        /\ ret = Returned(query, Str(CalcFailed))

\* C7 amended: a non-empty query of operator characters (+ - * /) only
\* takes the fast path and ends with the calculation-failure string; the
\* empty query does not pass the lexical check and is sent to the model.
C7_OperatorsFailGracefully ==
    /\ (pc # "idle" /\ query # <<>> /\ OnlyOperators(query)) =>
           /\ FastPathTaken
           /\ ret = Returned(query, Str(CalcFailed))
    /\ (pc # "idle" /\ query = <<>>) =>
           /\ ~ is_purely_math_query(query)
           /\ Len(calls) >= 1
           /\ calls[1] = RoutingRequest(query, history)

C7_Witness ==
    /\ Done /\ query = <<"+", "+">> /\ ret.result = Str(CalcFailed)

\* C8: a rate-limit error on the routing call or on the fallback call is
\* always recovered into {query, result}; without a numeric wait hint in
\* the message the result is the generic high-traffic message.
C8_RateLimitRecovered ==
    RateLimited =>
        /\ ret.kind = "returned"
        /\ ret.query = query
        /\ IsDisplayString(ret.result)
        /\ (\/ failure.body.message.type # "str"
            \/ SecondsHints(failure.body.message.text) = {}) =>
               ret.result = Str(HighTraffic)

RoutingReplyMalformed ==
    /\ Len(replies) >= 1
    /\ replies[1].kind = "ok"
    /\ replies[1].shape \in {"body_not_json", "no_choices", "content_null",
                             "content_not_json", "content_not_object"}

\* C9: a routing reply that arrives but cannot be parsed as a choice ends
\* the request with the "unexpected error" result; no fallback request is
\* posted and no capability is called.
C9_MalformedReplyIsUnexpectedError ==
    RoutingReplyMalformed =>
        /\ Done
        /\ ret.kind = "returned"
        /\ ret.query = query
        /\ ret.result.type = "str"
        /\ Len(ret.result.text) >= 2
        /\ ret.result.text[1] = "An unexpected error occurred in the agent logic: "
        /\ Len(calls) = 1
        /\ invoked = <<>>

C9_Witness ==
    /\ Done /\ replies = <<[kind |-> "ok", shape |-> "content_not_json"]>>
    /\ ret.kind = "returned"

\* C10: at most two requests are posted and at most one capability is
\* called; the second request follows a parsed routing choice 'fallback';
\* a capability is called only on the fast path or after a parsed routing
\* choice naming a registered capability; never both a capability call and
\* a fallback request.
C10_EventsOrderedAndBounded ==
    /\ Len(calls) <= 2
    /\ Len(invoked) <= 1
    /\ Len(replies) <= Len(calls)
    /\ Len(calls) >= 1 => calls[1].response_format = "json_object"
    /\ Len(calls) = 2 =>
           /\ replies[1] = [kind |-> "ok", shape |-> "choice"]
           /\ choice = Str(<<"fallback">>)
           /\ calls[2].response_format = "none"
    /\ Len(invoked) = 1 =>
           \/ calls = <<>> /\ invoked[1].name = "calculator"
           \/ /\ Len(calls) = 1
              /\ replies = <<[kind |-> "ok", shape |-> "choice"]>>
              /\ choice = Str(<<invoked[1].name>>)
              /\ invoked[1].name \in ToolKeys
    /\ ~ (Len(invoked) >= 1 /\ Len(calls) >= 2)

C10_Witness ==
    /\ Done /\ Len(calls) = 2 /\ Len(replies) = 2 /\ invoked = <<>>

====
